---- MODULE Spec2Model ----
(***************************************************************************)
(* certificate-init-container: a model of main() of src/main.go.           *)
(*                                                                         *)
(* One run of the program is a sequential process whose position is pc[r]. *)
(* The control plane (the signing request of the deterministic name        *)
(* <podName>-<namespace> and the target secret) is shared state; every     *)
(* call to it may fail.  The approver, the signer and the provisioner of   *)
(* the secret are actors of the environment.                               *)
(***************************************************************************)
EXTENDS Integers, Sequences, FiniteSets, TLC

VARIABLES
    flags,        \* r -> the command-line flags of run r (main.go:61-79)
    pc,           \* r -> position of run r in main()
    secret,       \* r -> the secret object retained by the preflight loop
    key,          \* r -> the generated private key
    pemKeyBytes,  \* r -> the PEM block of the private key
    labelsMap,    \* r -> labels of the signing request object
    ipaddresses,  \* r -> IP SANs
    certificateRequestBytes, \* r -> PEM block of the CSR
    csr,          \* r -> result of the last fetch of the poll loop
    certificate,  \* r -> certificate bytes taken from the signing request
    err,          \* r -> the err of main(): "" is nil
    exit,         \* r -> exit code, message of log.Fatal / panic
    files,        \* r -> files of the certificate directory
    calls,        \* r -> control-plane call sites that run r has executed
    csrStore,     \* control plane: the signing request <podName>-<namespace>
    secretStore,  \* control plane: the target secret
    startRequest, \* the signing request in the control plane when the runs started
    reliable      \* the control plane answers every call

vars == <<flags, pc, secret, key, pemKeyBytes, labelsMap, ipaddresses,
          certificateRequestBytes, csr, certificate, err, exit, files, calls,
          csrStore, secretStore, startRequest, reliable>>

\* what no step changes
fixed == <<startRequest, reliable>>

runVars == <<secret, key, pemKeyBytes, labelsMap, ipaddresses,
             certificateRequestBytes, csr, certificate, files>>

----------------------------------------------------------------------------
(* Bounds *)

MaxServiceIPs == 1     \* entries of -service-ips
MaxCertLen == 2        \* bytes of a certificate payload
MaxConds == 2          \* approval conditions on a signing request
MaxNames == 2          \* entries of -additional-dnsnames and of -service-names

----------------------------------------------------------------------------
(* Values *)

Runs == {1, 2}

Nil == [nil |-> TRUE]

NoFiles == <<>>

\* IP literals of the flags.  "10.0.0.5" and "10.0.0.9" are IPv4, "fd00::1"
\* is IPv6, the others do not parse.
PodIPLiterals == {"10.0.0.5", "fd00::1", "10.0.0"}
ServiceIPLiterals == {"", "10.0.0.9", "bogus"}

\* strings.Split(serviceIPs, ","): never an empty slice.
ServiceIPLists ==
    UNION {[1..n -> ServiceIPLiterals] : n \in 1..MaxServiceIPs}

\* -labels after strings.Split(labels, ","), each entry after
\* strings.Split(n, "="): "" , "k=v,=w" and "k=v,k".
LabelLists ==
    { << <<"">> >>, << <<"k", "v">>, <<"", "w">> >>, << <<"k", "v">>, <<"k">> >> }

SecretFiles == <<"tls.key", "tls.crt", "ca.crt">>

\* The secret as the control plane may hold it before the run: absent, or
\* present with any subset of the three files; values left by an earlier
\* run carry key 0, and tls.crt may be present but empty.
OldSecretValue(f, emptyCrt) ==
    IF f = "tls.key" THEN [type |-> "RSA PRIVATE KEY", key |-> 0]
    ELSE IF f = "tls.crt" THEN (IF emptyCrt THEN <<>> ELSE <<0, 0>>)
    ELSE "ca"

InitialSecrets ==
    {Nil} \cup
    { [data |-> [f \in D |-> OldSecretValue(f, e)], resourceVersion |-> 1] :
        D \in SUBSET {"tls.key", "tls.crt", "ca.crt"}, e \in {FALSE} }
    \cup
    { [data |-> [f \in {"tls.key", "tls.crt", "ca.crt"} |-> OldSecretValue(f, TRUE)],
       resourceVersion |-> 1] }

\* A signing request left in the control plane by an earlier run that was
\* killed: pending, denied, approved without or with its certificate.
StaleRequests ==
    { [owner |-> 0, labels |-> <<>>,
       request |-> [type |-> "CERTIFICATE REQUEST", key |-> 0,
                    commonName |-> "10-0-0-5.default.pod.cluster.local",
                    dnsNames |-> <<"10-0-0-5.default.pod.cluster.local">>,
                    ips |-> <<>>],
       conditions |-> c[1], certificate |-> c[2]] :
        c \in { << <<>>, <<>> >>, << <<"Denied">>, <<>> >>,
                << <<"Approved">>, <<>> >>, << <<"Approved">>, <<0, 0>> >> } }

----------------------------------------------------------------------------
(* net.ParseIP, IP.To4 and IP.To16 as main() uses them *)

NilIP == [len |-> 0, v4 |-> FALSE, addr |-> ""]

ParseIP(s) ==
    IF s \in {"10.0.0.5", "10.0.0.9"} THEN [len |-> 16, v4 |-> TRUE, addr |-> s]
    ELSE IF s \in {"fd00::1"} THEN [len |-> 16, v4 |-> FALSE, addr |-> s]
    ELSE NilIP

To4(ip) ==
    IF ip.len = 4 THEN ip
    ELSE IF ip.len = 16 /\ ip.v4 THEN [ip EXCEPT !.len = 4]
    ELSE NilIP

To16(ip) ==
    IF ip.len = 4 THEN [ip EXCEPT !.len = 16]
    ELSE IF ip.len = 16 THEN ip
    ELSE NilIP

\* the test with its second comparison inverted
InvalidIP_Inverted(ip) == To4(ip) = NilIP /\ To16(ip) # NilIP

\* main.go:176, 187: ip.To4() == nil && ip.To16() == nil
InvalidIP(ip) == To4(ip) = NilIP /\ To16(ip) = NilIP

----------------------------------------------------------------------------
(* Steps shared by the actions *)

Goto(r, l) == pc' = [pc EXCEPT ![r] = l]

\* log.Fatal / log.Fatalf: exit status 1
Fatal(r, m) ==
    /\ pc' = [pc EXCEPT ![r] = "exited"]
    /\ exit' = [exit EXCEPT ![r] = [code |-> 1, msg |-> m]]

\* panic(err): exit status 2
Panic(r, m) ==
    /\ pc' = [pc EXCEPT ![r] = "exited"]
    /\ exit' = [exit EXCEPT ![r] = [code |-> 2, msg |-> m]]

\* os.Exit(0)
Exit0(r) ==
    /\ pc' = [pc EXCEPT ![r] = "exited"]
    /\ exit' = [exit EXCEPT ![r] = [code |-> 0, msg |-> ""]]

\* the error of a fetch by name: the call fails, or there is no such object
FetchError(ok, store) ==
    IF ~ok THEN "unavailable"
    ELSE IF store = Nil THEN "not found"
    ELSE ""

\* the outcomes of a call to the control plane: it succeeds, or it fails
\* unless the control plane is always available
Outcomes == IF reliable THEN {TRUE} ELSE BOOLEAN

SetErr(r, e) == err' = [err EXCEPT ![r] = e]

Call(r, site) == calls' = [calls EXCEPT ![r] = @ \cup {site}]

----------------------------------------------------------------------------
(* Initial states *)

\* the flags of the names at their defaults (main.go:61-72)
FlagSets ==
    [ certDir : {"", "/certs"},
      secretName : {"", "tls-secret"},
      pkcs8Format : BOOLEAN,
      podIP : PodIPLiterals,
      serviceIPs : ServiceIPLists,
      labels : LabelLists,
      hostname : {""},
      subdomain : {""},
      namespace : {"default"},
      clusterDomain : {"cluster.local"},
      headlessNameAsCN : {FALSE},
      additionalDNSNames : {<<"">>},
      serviceNames : {<<"">>} ]

NoFlags ==
    [ certDir |-> "", secretName |-> "", pkcs8Format |-> FALSE,
      podIP |-> "10.0.0.5", serviceIPs |-> <<"">>, labels |-> << <<"">> >>,
      hostname |-> "", subdomain |-> "", namespace |-> "default",
      clusterDomain |-> "cluster.local", headlessNameAsCN |-> FALSE,
      additionalDNSNames |-> <<"">>, serviceNames |-> <<"">> ]

\* the runs of live started with flags of F, the other runs not started
InitFrom(live, F) ==
    /\ flags \in [Runs -> F \cup {NoFlags}]
    /\ \A r \in Runs \ live : flags[r] = NoFlags
    /\ \A r \in live : flags[r] \in F
    /\ pc = [r \in Runs |-> IF r \in live THEN "main" ELSE "off"]
    /\ secret = [r \in Runs |-> Nil]
    /\ key = [r \in Runs |-> 0]
    /\ pemKeyBytes = [r \in Runs |-> Nil]
    /\ labelsMap = [r \in Runs |-> <<>>]
    /\ ipaddresses = [r \in Runs |-> <<>>]
    /\ certificateRequestBytes = [r \in Runs |-> Nil]
    /\ csr = [r \in Runs |-> Nil]
    /\ certificate = [r \in Runs |-> <<>>]
    /\ err = [r \in Runs |-> ""]
    /\ exit = [r \in Runs |-> [code |-> -1, msg |-> ""]]
    /\ files = [r \in Runs |-> NoFiles]
    /\ calls = [r \in Runs |-> {}]
    /\ csrStore \in {Nil} \cup StaleRequests
    /\ startRequest = csrStore
    /\ secretStore \in InitialSecrets
    /\ (\A r \in live : flags[r].secretName = "") => secretStore = Nil

\* strings.Split of a list flag: one to MaxNames entries of S
NameLists(S) == UNION {[1..n -> S] : n \in 1..MaxNames}

\* the flags of the names over their values, the filesystem sink
IdentityFlagSets ==
    [ certDir : {"/certs"},
      secretName : {""},
      pkcs8Format : {FALSE},
      podIP : PodIPLiterals,
      serviceIPs : {<<"">>},
      labels : {<< <<"">> >>},
      hostname : {"", "h"},
      subdomain : {"", "s"},
      namespace : {"default", "n"},
      clusterDomain : {"cluster.local", "d"},
      headlessNameAsCN : BOOLEAN,
      additionalDNSNames : NameLists({"", "a.example"}),
      serviceNames : NameLists({"", "web"}) ]

\* a single run over the flags of the names, nothing in the control plane
InitDNS ==
    /\ InitFrom({1}, IdentityFlagSets)
    /\ csrStore = Nil
    /\ reliable = FALSE

InitRuns(live) ==
    /\ InitFrom(live, FlagSets)
    /\ reliable = FALSE

\* a single run, no concurrent run of the same workload
Init == InitRuns({1})

\* the flags of a run that reaches the poll loop, with either sink
LiveFlagSets ==
    { f \in [ certDir : {"", "/certs"},
              secretName : {"", "tls-secret"},
              pkcs8Format : {FALSE},
              podIP : {"10.0.0.5"},
              serviceIPs : {<<"">>},
              labels : {<< <<"">> >>},
              hostname : {""},
              subdomain : {""},
              namespace : {"default"},
              clusterDomain : {"cluster.local"},
              headlessNameAsCN : {FALSE},
              additionalDNSNames : {<<"">>},
              serviceNames : {<<"">>} ] :
        (f.certDir = "") # (f.secretName = "") }

InitLive ==
    /\ InitFrom({1}, LiveFlagSets)
    /\ reliable = FALSE

----------------------------------------------------------------------------
(* main() *)

\* main.go:81-94: the client, the check of the two sinks, the default of
\* -cert-dir
NewInClusterClient(r) ==
    /\ pc[r] = "main"
    /\ \E ok \in BOOLEAN :
         IF ~ok
         THEN /\ Fatal(r, "unable to create a Kubernetes client")
              /\ SetErr(r, "unavailable")
              /\ UNCHANGED flags
         ELSE IF flags[r].certDir # "" /\ flags[r].secretName # ""
         THEN /\ Fatal(r, "-cert-dir and -secret-name does not make sense together")
              /\ UNCHANGED <<flags, err>>
         ELSE /\ flags' = [flags EXCEPT ![r].certDir =
                              IF @ = "" THEN "/etc/tls" ELSE @]
              /\ Goto(r, IF flags[r].secretName # "" THEN "GetSecret" ELSE "GenerateKey")
              /\ UNCHANGED <<exit, err>>
    /\ UNCHANGED <<fixed, runVars, calls, csrStore, secretStore>>

\* the test of the loop without its negation
MissingFile_Present(ks) ==
    \E i \in 1..Len(SecretFiles) : SecretFiles[i] \in DOMAIN ks.data

\* main.go:107-113: some file of the triple is not in the secret's data
MissingFile(ks) ==
    \E i \in 1..Len(SecretFiles) : SecretFiles[i] \notin DOMAIN ks.data

\* the preflight loop going on to the key after a fetch that failed
GetSecret_NoWait(r) ==
    /\ pc[r] = "GetSecret"
    /\ Call(r, "GetSecret")
    /\ \E ok \in Outcomes :
         IF FetchError(ok, secretStore) # ""
         THEN /\ Goto(r, "GenerateKey")
              /\ UNCHANGED <<exit, secret>>
         ELSE IF MissingFile(secretStore)
         THEN /\ secret' = [secret EXCEPT ![r] = secretStore]
              /\ Goto(r, "GenerateKey")
              /\ UNCHANGED exit
         ELSE /\ Exit0(r)
              /\ UNCHANGED secret
    /\ UNCHANGED <<fixed, err, flags, key, pemKeyBytes, labelsMap, ipaddresses,
                   certificateRequestBytes, csr, certificate, files,
                   csrStore, secretStore>>

\* main.go:99-119: the preflight loop, one iteration
GetSecret(r) ==
    /\ pc[r] = "GetSecret"
    /\ Call(r, "GetSecret")
    /\ \E ok \in Outcomes :
         IF FetchError(ok, secretStore) # ""
         THEN \* err != nil: sleep and continue
              UNCHANGED <<pc, exit, secret>>
         ELSE IF MissingFile(secretStore)
         THEN /\ secret' = [secret EXCEPT ![r] = secretStore]
              /\ Goto(r, "GenerateKey")
              /\ UNCHANGED exit
         ELSE /\ Exit0(r)
              /\ UNCHANGED secret
    /\ UNCHANGED <<fixed, err, flags, key, pemKeyBytes, labelsMap, ipaddresses,
                   certificateRequestBytes, csr, certificate, files,
                   csrStore, secretStore>>

\* main.go:129-145: the PEM block of the key in the selected encoding
EncodeKey(pkcs8Format, k) ==
    [type |-> IF pkcs8Format THEN "PRIVATE KEY" ELSE "RSA PRIVATE KEY", key |-> k]

\* main.go:124-145: rsa.GenerateKey, the PKCS#1 or PKCS#8 encoding, the PEM
\* block.  The key of run r is r; 0 is no key.
GenerateKey(r) ==
    /\ pc[r] = "GenerateKey"
    /\ \E ok \in BOOLEAN, converted \in BOOLEAN :
         IF ~ok
         THEN /\ Fatal(r, "unable to genarate the private key")
              /\ SetErr(r, "rsa")
              /\ UNCHANGED <<key, pemKeyBytes>>
         ELSE IF flags[r].pkcs8Format /\ ~converted
         THEN /\ Panic(r, "ConvertPrivateKeyToPKCS8")
              /\ SetErr(r, "pkcs8")
              /\ key' = [key EXCEPT ![r] = r]
              /\ UNCHANGED pemKeyBytes
         ELSE /\ key' = [key EXCEPT ![r] = r]
              /\ pemKeyBytes' = [pemKeyBytes EXCEPT ![r] = EncodeKey(flags[r].pkcs8Format, r)]
              /\ Goto(r, "WriteKeyFile")
              /\ UNCHANGED <<exit, err>>
    /\ UNCHANGED <<fixed, flags, secret, labelsMap, ipaddresses, certificateRequestBytes,
                   csr, certificate, files, calls, csrStore, secretStore>>

\* the sink chosen by the directory, which is never empty after main.go:93
FilesystemSink_CertDir(r) == flags[r].certDir # ""

\* main.go:147, 255, 320: secretName == ""
FilesystemSink(r) == flags[r].secretName = ""

\* ioutil.WriteFile(path.Join(certDir, name), content, 0644)
WriteFile(fs, name, content) == (name :> content) @@ fs

\* main.go:147-154: tls.key, only without -secret-name
WriteKeyFile(r) ==
    /\ pc[r] = "WriteKeyFile"
    /\ IF FilesystemSink(r)
       THEN \E ok \in BOOLEAN :
              IF ok
              THEN /\ files' = [files EXCEPT ![r] = WriteFile(@, "tls.key", pemKeyBytes[r])]
                   /\ Goto(r, "ParseLabels")
                   /\ UNCHANGED exit
              ELSE /\ Fatal(r, "unable to write to tls.key")
                   /\ UNCHANGED files
       ELSE /\ Goto(r, "ParseLabels")
            /\ UNCHANGED <<exit, files>>
    /\ UNCHANGED <<fixed, err, flags, secret, key, pemKeyBytes, labelsMap, ipaddresses,
                   certificateRequestBytes, csr, certificate, calls,
                   csrStore, secretStore>>

\* main.go:159-169: the loop over the entries of -labels from entry i on;
\* the result is the map, or "panic" when s[1] is out of range
RECURSIVE GatherLabels(_, _, _)
GatherLabels(list, i, m) ==
    IF i > Len(list) THEN [panic |-> FALSE, map |-> m]
    ELSE LET s == list[i] IN
         IF s = <<"">> THEN GatherLabels(list, i + 1, m)
         ELSE IF Len(s) < 2 THEN [panic |-> TRUE, map |-> m]
         ELSE IF s[1] = "" THEN GatherLabels(list, i + 1, m)
         ELSE GatherLabels(list, i + 1, (s[1] :> s[2]) @@ m)

\* main.go:156-169
ParseLabels(r) ==
    /\ pc[r] = "ParseLabels"
    /\ LET g == GatherLabels(flags[r].labels, 1, <<>>) IN
         IF g.panic
         THEN /\ Panic(r, "index out of range")
              /\ UNCHANGED labelsMap
         ELSE /\ labelsMap' = [labelsMap EXCEPT ![r] = g.map]
              /\ Goto(r, "ParseIPs")
              /\ UNCHANGED exit
    /\ UNCHANGED <<fixed, err, flags, secret, key, pemKeyBytes, ipaddresses,
                   certificateRequestBytes, csr, certificate, files, calls,
                   csrStore, secretStore>>

\* main.go:182-191: the loop over the entries of -service-ips from entry i
\* on; the result is the list of addresses, or the fatal error
RECURSIVE GatherServiceIPs(_, _, _)
GatherServiceIPs(list, i, ips) ==
    IF i > Len(list) THEN [fatal |-> FALSE, ips |-> ips]
    ELSE IF list[i] = "" THEN GatherServiceIPs(list, i + 1, ips)
    ELSE IF InvalidIP(ParseIP(list[i])) THEN [fatal |-> TRUE, ips |-> ips]
    ELSE GatherServiceIPs(list, i + 1, Append(ips, ParseIP(list[i])))

\* main.go:171-191
ParseIPs(r) ==
    /\ pc[r] = "ParseIPs"
    /\ LET ip == ParseIP(flags[r].podIP)
           g == GatherServiceIPs(flags[r].serviceIPs, 1, <<ip>>)
       IN IF InvalidIP(ip)
          THEN /\ Fatal(r, "invalid pod IP address")
               /\ UNCHANGED ipaddresses
          ELSE IF g.fatal
          THEN /\ Fatal(r, "invalid service IP address")
               /\ UNCHANGED ipaddresses
          ELSE /\ ipaddresses' = [ipaddresses EXCEPT ![r] = g.ips]
               /\ Goto(r, "CreateCertificateRequest")
               /\ UNCHANGED exit
    /\ UNCHANGED <<fixed, err, flags, secret, key, pemKeyBytes, labelsMap,
                   certificateRequestBytes, csr, certificate, files, calls,
                   csrStore, secretStore>>

\* strings.Replace(ip, ".", "-", -1) on the literals of -pod-ip
ReplaceDots(ip) ==
    IF ip = "10.0.0.5" THEN "10-0-0-5"
    ELSE IF ip = "10.0.0" THEN "10-0-0"
    ELSE ip

\* main.go:364-366
serviceDomainName(name, namespace, domain) ==
    name \o "." \o namespace \o ".svc." \o domain

\* main.go:368-370
podDomainName(ip, namespace, domain) ==
    ReplaceDots(ip) \o "." \o namespace \o ".pod." \o domain

\* main.go:372-377
podHeadlessDomainName(hostname, subdomain, namespace, domain) ==
    IF hostname = "" \/ subdomain = "" THEN ""
    ELSE hostname \o "." \o subdomain \o "." \o namespace \o ".svc." \o domain

\* the headless name appended whatever the flag says
defaultDNSNames_Appended(ip, hostname, subdomain, namespace, clusterDomain, headlessNameAsCN) ==
    LET ns == <<podDomainName(ip, namespace, clusterDomain)>>
        headlessName == podHeadlessDomainName(hostname, subdomain, namespace, clusterDomain)
    IN IF hostname # "" /\ subdomain # ""
       THEN Append(ns, headlessName)
       ELSE ns

\* main.go:351-362; headlessNameAsCN is the flag that the function reads
defaultDNSNames(ip, hostname, subdomain, namespace, clusterDomain, headlessNameAsCN) ==
    LET ns == <<podDomainName(ip, namespace, clusterDomain)>>
        headlessName == podHeadlessDomainName(hostname, subdomain, namespace, clusterDomain)
    IN IF hostname # "" /\ subdomain # ""
       THEN IF headlessNameAsCN
            THEN <<headlessName>> \o ns
            ELSE Append(ns, headlessName)
       ELSE ns

\* main.go:205-210: the loop over the entries of -additional-dnsnames from
\* entry i on
RECURSIVE GatherAdditionalNames(_, _, _)
GatherAdditionalNames(list, i, names) ==
    IF i > Len(list) THEN names
    ELSE IF list[i] = "" THEN GatherAdditionalNames(list, i + 1, names)
    ELSE GatherAdditionalNames(list, i + 1, Append(names, list[i]))

\* main.go:212-217: the loop over the entries of -service-names from entry
\* i on
RECURSIVE GatherServiceNames(_, _, _, _, _)
GatherServiceNames(list, i, names, namespace, clusterDomain) ==
    IF i > Len(list) THEN names
    ELSE IF list[i] = "" THEN GatherServiceNames(list, i + 1, names, namespace, clusterDomain)
    ELSE GatherServiceNames(list, i + 1,
                            Append(names, serviceDomainName(list[i], namespace, clusterDomain)),
                            namespace, clusterDomain)

\* main.go:203-217: the DNS names of the flags f
DNSNames(f) ==
    GatherServiceNames(
        f.serviceNames, 1,
        GatherAdditionalNames(
            f.additionalDNSNames, 1,
            defaultDNSNames(f.podIP, f.hostname, f.subdomain, f.namespace,
                            f.clusterDomain, f.headlessNameAsCN)),
        f.namespace, f.clusterDomain)

\* the last name taken for the first
CommonName_Last(dnsNames) == dnsNames[Len(dnsNames)]

\* main.go:238: CommonName: dnsNames[0]
CommonName(dnsNames) == dnsNames[1]

\* main.go:203-253: the DNS names, and the request signed with the key of
\* the run
CreateCertificateRequest(r) ==
    /\ pc[r] = "CreateCertificateRequest"
    /\ \E ok \in BOOLEAN :
         IF ok
         THEN /\ certificateRequestBytes' =
                    [certificateRequestBytes EXCEPT ![r] =
                        [type |-> "CERTIFICATE REQUEST", key |-> key[r],
                         commonName |-> CommonName(DNSNames(flags[r])),
                         dnsNames |-> DNSNames(flags[r]),
                         ips |-> ipaddresses[r]]]
              /\ Goto(r, "WriteCsrFile")
              /\ UNCHANGED <<exit, err>>
         ELSE /\ Fatal(r, "unable to generate the certificate request")
              /\ SetErr(r, "x509")
              /\ UNCHANGED certificateRequestBytes
    /\ UNCHANGED <<fixed, flags, secret, key, pemKeyBytes, labelsMap, ipaddresses,
                   csr, certificate, files, calls, csrStore, secretStore>>

\* the run going on to the signing request without the write of tls.csr
WriteCsrFile_Skipped(r) ==
    /\ pc[r] = "WriteCsrFile"
    /\ Goto(r, "Cleanup")
    /\ UNCHANGED <<fixed, err, flags, runVars, exit, calls, csrStore, secretStore>>

\* main.go:255-262: tls.csr, only without -secret-name
WriteCsrFile(r) ==
    /\ pc[r] = "WriteCsrFile"
    /\ IF FilesystemSink(r)
       THEN \E ok \in BOOLEAN :
              IF ok
              THEN /\ files' = [files EXCEPT ![r] =
                                   WriteFile(@, "tls.csr", certificateRequestBytes[r])]
                   /\ Goto(r, "Cleanup")
                   /\ UNCHANGED exit
              ELSE /\ Fatal(r, "unable to tls.csr")
                   /\ UNCHANGED files
       ELSE /\ Goto(r, "Cleanup")
            /\ UNCHANGED <<exit, files>>
    /\ UNCHANGED <<fixed, err, flags, secret, key, pemKeyBytes, labelsMap, ipaddresses,
                   certificateRequestBytes, csr, certificate, calls,
                   csrStore, secretStore>>

\* main.go:266-276: the object submitted to the control plane
NewSigningRequest(r) ==
    [owner |-> r, labels |-> labelsMap[r], request |-> certificateRequestBytes[r],
     conditions |-> <<>>, certificate |-> <<>>]

\* main.go:278-280: the delete before the submission; its error is not read
Cleanup(r) ==
    /\ pc[r] = "Cleanup"
    /\ Call(r, "DeleteCertificateSigningRequest:279")
    /\ \E ok \in Outcomes :
         csrStore' = IF ok THEN Nil ELSE csrStore
    /\ Goto(r, "PresenceCheck")
    /\ UNCHANGED <<fixed, err, flags, runVars, exit, secretStore>>

\* the request is submitted whatever the fetch returned
Submit_Always(e) == TRUE

\* main.go:283: err != nil
Submit(e) == e # ""

\* main.go:282-291: the fetch that decides whether to submit
PresenceCheck(r) ==
    /\ pc[r] = "PresenceCheck"
    /\ Call(r, "GetCertificateSigningRequest:282")
    /\ \E ok \in Outcomes :
         /\ SetErr(r, FetchError(ok, csrStore))
         /\ Goto(r, IF Submit(FetchError(ok, csrStore)) THEN "Create" ELSE "Poll")
    /\ UNCHANGED <<fixed, flags, runVars, exit, csrStore, secretStore>>

\* a submission that replaces the object of the same name
Create_Replace(r) ==
    /\ pc[r] = "Create"
    /\ Call(r, "CreateCertificateSigningRequest:284")
    /\ csrStore' = NewSigningRequest(r)
    /\ SetErr(r, "")
    /\ Goto(r, "Poll")
    /\ UNCHANGED <<fixed, flags, runVars, exit, secretStore>>

\* main.go:284-288: the submission; the control plane refuses a second
\* object of the same name
Create(r) ==
    /\ pc[r] = "Create"
    /\ Call(r, "CreateCertificateSigningRequest:284")
    /\ \E ok \in Outcomes :
         IF ~ok \/ csrStore # Nil
         THEN /\ Fatal(r, "unable to create the certificate signing request")
              /\ SetErr(r, IF ok THEN "already exists" ELSE "unavailable")
              /\ UNCHANGED csrStore
         ELSE /\ csrStore' = NewSigningRequest(r)
              /\ SetErr(r, "")
              /\ Goto(r, "Poll")
              /\ UNCHANGED exit
    /\ UNCHANGED <<fixed, flags, runVars, secretStore>>

\* an approval anywhere among the conditions
IsApproved_Any(c) ==
    \E i \in 1..Len(c.conditions) : c.conditions[i] = "Approved"

\* main.go:302-303: the first condition of the request is "Approved"
IsApproved(c) ==
    /\ Len(c.conditions) > 0
    /\ c.conditions[1] = "Approved"

\* the test of the length off by one
CertificateReady_NonEmpty(cert) == Len(cert) > 0

\* main.go:305
CertificateReady(cert) == Len(cert) > 1

\* main.go:294-318: the poll loop, one iteration
Poll(r) ==
    /\ pc[r] = "Poll"
    /\ Call(r, "GetCertificateSigningRequest:295")
    /\ \E ok \in Outcomes :
         IF FetchError(ok, csrStore) # ""
         THEN /\ csr' = [csr EXCEPT ![r] = Nil]
              /\ UNCHANGED <<pc, certificate>>
         ELSE /\ csr' = [csr EXCEPT ![r] = csrStore]
              /\ IF IsApproved(csrStore)
                 THEN /\ certificate' = [certificate EXCEPT ![r] = csrStore.certificate]
                      /\ IF CertificateReady(csrStore.certificate)
                         THEN Goto(r, "WriteCrtFile")
                         ELSE UNCHANGED pc
                 ELSE UNCHANGED <<pc, certificate>>
    /\ UNCHANGED <<fixed, err, flags, secret, key, pemKeyBytes, labelsMap, ipaddresses,
                   certificateRequestBytes, exit, files, csrStore, secretStore>>

\* main.go:295-300: an iteration whose fetch returned the request
PollFetched(r) == Poll(r) /\ csr'[r] # Nil

\* main.go:320-326: tls.crt, only without -secret-name
WriteCrtFile(r) ==
    /\ pc[r] = "WriteCrtFile"
    /\ IF FilesystemSink(r)
       THEN \E ok \in BOOLEAN :
              IF ok
              THEN /\ files' = [files EXCEPT ![r] = WriteFile(@, "tls.crt", certificate[r])]
                   /\ Goto(r, "DeleteAfter")
                   /\ UNCHANGED exit
              ELSE /\ Fatal(r, "unable to write to tls.crt")
                   /\ UNCHANGED files
       ELSE /\ Goto(r, "DeleteAfter")
            /\ UNCHANGED <<exit, files>>
    /\ UNCHANGED <<fixed, err, flags, secret, key, pemKeyBytes, labelsMap, ipaddresses,
                   certificateRequestBytes, csr, certificate, calls,
                   csrStore, secretStore>>

\* the run without the delete after the certificate
DeleteAfter_Skipped(r) ==
    /\ pc[r] = "DeleteAfter"
    /\ Goto(r, "StoreSecret")
    /\ UNCHANGED <<fixed, err, flags, runVars, exit, calls, csrStore, secretStore>>

\* main.go:328-330: the delete after the certificate; its error is not read
DeleteAfter(r) ==
    /\ pc[r] = "DeleteAfter"
    /\ Call(r, "DeleteCertificateSigningRequest:329")
    /\ \E ok \in Outcomes :
         csrStore' = IF ok THEN Nil ELSE csrStore
    /\ Goto(r, "StoreSecret")
    /\ UNCHANGED <<fixed, err, flags, runVars, exit, secretStore>>

\* main.go:338-343: the three fields written into the retained object
StringData(r, k8sCrt) ==
    [f \in {"tls.key", "tls.crt", "ca.crt"} |->
        IF f = "tls.key" THEN pemKeyBytes[r]
        ELSE IF f = "tls.crt" THEN certificate[r]
        ELSE k8sCrt]

\* the control plane's update of a secret: the object must exist and carry
\* the current resourceVersion; stringData is merged into data
UpdateError(store, obj) ==
    IF store = Nil THEN "not found"
    ELSE IF store.resourceVersion # obj.resourceVersion THEN "conflict"
    ELSE ""

UpdatedSecret(store, obj, stringData) ==
    IF UpdateError(store, obj) # ""
    THEN store
    ELSE [data |-> stringData @@ store.data,
          resourceVersion |-> store.resourceVersion + 1]

\* main.go:332-348: the CA bundle, the update of the secret (its error is
\* assigned and not read), os.Exit(0)
StoreSecret(r) ==
    /\ pc[r] = "StoreSecret"
    /\ IF secret[r] # Nil
       THEN \E read \in BOOLEAN, ok \in Outcomes :
              IF ~read
              THEN /\ Panic(r, "ReadFile ca.crt")
                   /\ SetErr(r, "ReadFile")
                   /\ UNCHANGED <<secret, secretStore, calls>>
              ELSE /\ secret' = [secret EXCEPT ![r] =
                                   [data |-> @.data, resourceVersion |-> @.resourceVersion,
                                    stringData |-> StringData(r, "ca")]]
                   /\ Call(r, "UpdateSecret")
                   /\ secretStore' = IF ok
                                     THEN UpdatedSecret(secretStore, secret[r], StringData(r, "ca"))
                                     ELSE secretStore
                   /\ SetErr(r, IF ok THEN UpdateError(secretStore, secret[r])
                                      ELSE "unavailable")
                   /\ Exit0(r)
       ELSE /\ Exit0(r)
            /\ UNCHANGED <<secret, secretStore, calls, err>>
    /\ UNCHANGED <<fixed, flags, key, pemKeyBytes, labelsMap, ipaddresses,
                   certificateRequestBytes, csr, certificate, files, csrStore>>

----------------------------------------------------------------------------
(* The environment *)

\* The state of a request left by an earlier run is chosen in Init; the
\* approver and the signer act once a run has reached its signing-request
\* calls.
Issuing ==
    \E r \in Runs :
        pc[r] \in {"Cleanup", "PresenceCheck", "Create", "Poll", "WriteCrtFile",
                   "DeleteAfter"}

\* the approver adds a condition to the signing request
Approve ==
    /\ Issuing
    /\ csrStore # Nil
    /\ Len(csrStore.conditions) < MaxConds
    /\ \E c \in {"Approved", "Denied"} :
         csrStore' = [csrStore EXCEPT !.conditions = Append(@, c)]
    /\ UNCHANGED <<fixed, err, flags, pc, runVars, exit, calls, secretStore>>

\* the signer fills in the certificate of an approved request, issued for
\* the key of the request
Sign ==
    /\ Issuing
    /\ csrStore # Nil
    /\ \E i \in 1..Len(csrStore.conditions) : csrStore.conditions[i] = "Approved"
    /\ \E n \in 1..MaxCertLen :
         /\ n > Len(csrStore.certificate)
         /\ csrStore' = [csrStore EXCEPT !.certificate = [i \in 1..n |-> csrStore.request.key]]
    /\ UNCHANGED <<fixed, err, flags, pc, runVars, exit, calls, secretStore>>

\* the secret is provisioned by an external process
ProvisionSecret ==
    /\ secretStore = Nil
    /\ \E r \in Runs : pc[r] = "GetSecret"
    /\ secretStore' \in InitialSecrets \ {Nil}
    /\ UNCHANGED <<fixed, err, flags, pc, runVars, exit, calls, csrStore>>

----------------------------------------------------------------------------

Run(r) ==
    \/ NewInClusterClient(r)
    \/ GetSecret(r)
    \/ GenerateKey(r)
    \/ WriteKeyFile(r)
    \/ ParseLabels(r)
    \/ ParseIPs(r)
    \/ CreateCertificateRequest(r)
    \/ WriteCsrFile(r)
    \/ Cleanup(r)
    \/ PresenceCheck(r)
    \/ Create(r)
    \/ Poll(r)
    \/ WriteCrtFile(r)
    \/ DeleteAfter(r)
    \/ StoreSecret(r)

Next ==
    \/ \E r \in Runs : Run(r)
    \/ Approve
    \/ Sign
    \/ ProvisionSecret

Spec == Init /\ [][Next]_vars

\* two runs of the same pod name and namespace, started with the same flags,
\* no request left by an earlier run, and a control plane that answers
\* every call
InitConc ==
    /\ InitFrom({1, 2}, LiveFlagSets)
    /\ flags[1] = flags[2]
    /\ csrStore = Nil
    /\ reliable = TRUE

SpecConc == InitConc /\ [][Next]_vars

\* The process of a run goes on until it exits (a call returns, time.Sleep
\* returns), and a fetch of the poll loop that can succeed does not fail
\* for ever.
SpecLive ==
    /\ InitLive
    /\ [][Next]_vars
    /\ \A r \in Runs : WF_vars(Run(r)) /\ WF_vars(PollFetched(r))

\* the run up to the request that it builds (main.go:81-262)
NextDNS ==
    \E r \in Runs :
        \/ NewInClusterClient(r)
        \/ GenerateKey(r)
        \/ WriteKeyFile(r)
        \/ ParseLabels(r)
        \/ ParseIPs(r)
        \/ CreateCertificateRequest(r)
        \/ WriteCsrFile(r)

SpecDNS == InitDNS /\ [][NextDNS]_vars

----------------------------------------------------------------------------
(* Properties *)

SigningRequestCalls ==
    {"DeleteCertificateSigningRequest:279", "GetCertificateSigningRequest:282",
     "CreateCertificateSigningRequest:284", "GetCertificateSigningRequest:295",
     "DeleteCertificateSigningRequest:329"}

\* the pod IP or a non-empty service IP of run r does not parse
MalformedIP(r) ==
    \/ ParseIP(flags[r].podIP) = NilIP
    \/ \E i \in 1..Len(flags[r].serviceIPs) :
         /\ flags[r].serviceIPs[i] # ""
         /\ ParseIP(flags[r].serviceIPs[i]) = NilIP

\* C1 as stated: a run with a malformed pod IP or service IP generates no
\* key, makes no control-plane call and writes no file.
C1_AbortBeforeAnyWork ==
    \A r \in Runs :
        MalformedIP(r) =>
            /\ key[r] = 0
            /\ calls[r] = {}
            /\ DOMAIN files[r] = {}

\* C1 amended: a run with a malformed pod IP or service IP gets no further
\* than the validation of the addresses, where it ends with a fatal error:
\* it makes no signing-request call, never updates the secret, builds no
\* request and writes neither tls.csr nor tls.crt.  (The key is generated,
\* tls.key written and the secret fetched before the validation.)
C1_AbortBeforeSigningRequest ==
    \A r \in Runs :
        MalformedIP(r) =>
            /\ calls[r] \subseteq {"GetSecret"}
            /\ DOMAIN files[r] \subseteq {"tls.key"}
            /\ certificateRequestBytes[r] = Nil
            /\ pc[r] \in {"main", "GetSecret", "GenerateKey", "WriteKeyFile",
                          "ParseLabels", "ParseIPs", "exited"}
            /\ (pc[r] = "exited" /\ exit[r].code = 0) => key[r] = 0

C1_Witness ==
    \E r \in Runs :
        /\ MalformedIP(r)
        /\ exit[r].msg = "invalid service IP address"
        /\ key[r] # 0
        /\ "tls.key" \in DOMAIN files[r]

\* the secret holds the three files
HasTriple(s) == {"tls.key", "tls.crt", "ca.crt"} \subseteq DOMAIN s.data

\* the run ended on the short-circuit of the preflight loop
ShortCircuited(r) ==
    /\ flags[r].secretName # ""
    /\ pc[r] = "exited"
    /\ exit[r].code = 0
    /\ secret[r] = Nil

\* C2: in secret-store mode, a step of the preflight loop taken while the
\* secret holds tls.key, tls.crt and ca.crt either is a failed fetch, which
\* is repeated, or ends the run with exit code 0; a run ended this way has
\* generated no key, made no signing-request call and no update of the
\* secret, and has left the secret as it was.
C2_PreflightShortCircuit ==
    [][\A r \in Runs :
          /\ (pc[r] = "GetSecret" /\ secretStore # Nil /\ HasTriple(secretStore))
                => \/ pc'[r] = "GetSecret"
                   \/ ShortCircuited(r)' /\ secretStore' = secretStore
          /\ ShortCircuited(r)'
                => /\ key'[r] = 0
                   /\ pemKeyBytes'[r] = Nil
                   /\ calls'[r] = {"GetSecret"}
                   /\ HasTriple(secretStore')]_vars

C2_Witness ==
    \E r \in Runs : ShortCircuited(r) /\ HasTriple(secretStore)

\* a request without an "Approved" condition
Unapproved(c) ==
    \A i \in 1..Len(c.conditions) : c.conditions[i] # "Approved"

\* C3 as stated: when an unapproved signing request of the name is in the
\* control plane at the start of the run, the run does not call
\* createSigningRequest, and what it polls is that request.
C3_NoCreateWhenPresentAtStart ==
    \A r \in Runs :
        (startRequest # Nil /\ Unapproved(startRequest)) =>
            /\ pc[r] # "Create"
            /\ "CreateCertificateSigningRequest:284" \notin calls[r]
            /\ pc[r] = "Poll" => (csrStore # Nil /\ csrStore.owner = 0)

\* C3 amended: when the signing request of the name is still in the control
\* plane at the presence check and the fetch of the presence check succeeds
\* (the delete before it did not remove the request), the run does not call
\* createSigningRequest and goes straight to polling that request;
\* otherwise (the request was removed by the delete, or the fetch failed)
\* the run goes on to createSigningRequest.
C3_NoCreateWhenFoundAtPresenceCheck ==
    [][\A r \in Runs :
          /\ (pc[r] = "PresenceCheck" /\ pc'[r] # "PresenceCheck")
                => IF csrStore # Nil /\ err'[r] = ""
                   THEN /\ pc'[r] = "Poll"
                        /\ "CreateCertificateSigningRequest:284" \notin calls'[r]
                        /\ csrStore' = csrStore
                   ELSE pc'[r] = "Create"
          /\ (pc'[r] = "Poll" /\ "CreateCertificateSigningRequest:284" \notin calls'[r])
                => (csrStore' # Nil /\ csrStore'.owner = 0)]_vars

C3_Witness ==
    \E r \in Runs :
        /\ startRequest # Nil
        /\ startRequest.conditions = <<>>
        /\ pc[r] = "Poll"
        /\ "CreateCertificateSigningRequest:284" \notin calls[r]
        /\ csrStore = startRequest
        /\ csr[r] = startRequest

\* the run ended with exit code 0
ExitedZero(r) == pc[r] = "exited" /\ exit[r].code = 0

\* the secret in the control plane holds the key and the certificate of run r
SecretDelivered(r) ==
    /\ secretStore # Nil
    /\ HasTriple(secretStore)
    /\ secretStore.data["tls.key"] = pemKeyBytes[r]
    /\ secretStore.data["tls.crt"] = certificate[r]

\* C4: a run ends with exit code 0 only after the preflight short-circuit or
\* with the full output delivered: the three files in filesystem mode, the
\* new tls.key, tls.crt and ca.crt in the secret in secret-store mode.
C4_ExitZeroOnlyWhenDelivered ==
    \A r \in Runs :
        ExitedZero(r) =>
            \/ ShortCircuited(r)
            \/ /\ flags[r].secretName = ""
               /\ DOMAIN files[r] = {"tls.key", "tls.csr", "tls.crt"}
            \/ /\ flags[r].secretName # ""
               /\ SecretDelivered(r)

\* an error of the output sink after the certificate was obtained
CrtWriteFailed(r) == exit[r].msg = "unable to write to tls.crt"
CaReadFailed(r) == exit[r].msg = "ReadFile ca.crt"
UpdateFailed(r) == "UpdateSecret" \in calls[r] /\ err[r] # ""

\* C5 as stated: when the write of tls.crt, the read of the CA bundle or the
\* update of the secret has failed, the delete after the certificate has
\* been called.
C5_DeleteBeforeAnySinkError ==
    \A r \in Runs :
        (CrtWriteFailed(r) \/ CaReadFailed(r) \/ UpdateFailed(r))
            => "DeleteCertificateSigningRequest:329" \in calls[r]

\* C5 amended: when the read of the CA bundle or the update of the secret
\* has failed, the delete after the certificate has been called (its result
\* is not read); when the write of tls.crt has failed, the run has ended
\* before that delete.
C5_DeleteBeforeSecretSinkError ==
    \A r \in Runs :
        /\ (CaReadFailed(r) \/ UpdateFailed(r))
              => "DeleteCertificateSigningRequest:329" \in calls[r]
        /\ CrtWriteFailed(r)
              => "DeleteCertificateSigningRequest:329" \notin calls[r]

C5_Witness ==
    \E r \in Runs :
        /\ UpdateFailed(r)
        /\ pc[r] = "exited"
        /\ "DeleteCertificateSigningRequest:329" \in calls[r]
        /\ csrStore = Nil

\* C6: when a single run has ended with exit code 0 after the certificate
\* was obtained, no signing request of the name is left in the control
\* plane, whatever the two delete calls returned.
C6_NoRequestLeftAfterSuccess ==
    \A r \in Runs :
        (ExitedZero(r) /\ "GetCertificateSigningRequest:295" \in calls[r])
            => csrStore = Nil

\* C7: after the delete at the start of the run, the request that the run
\* polls was submitted by this run, never one left by an earlier run,
\* whatever that delete returned.
C7_PollsOnlyOwnRequest ==
    \A r \in Runs :
        /\ (pc[r] = "Poll" /\ csrStore # Nil) => csrStore.owner # 0
        /\ csr[r] # Nil => csr[r].owner # 0

\* the run was started with both -cert-dir and -secret-name
BothSinks(r) == flags[r].certDir = "/certs" /\ flags[r].secretName # ""

\* C8: a run started with both a certificate directory and a secret name
\* does nothing but end with a fatal error; a run with a secret name writes
\* no file; a run without a secret name never fetches, retains or updates
\* a secret.
C8_SinksExclusive ==
    \A r \in Runs :
        /\ BothSinks(r) =>
              /\ pc[r] \in {"main", "exited"}
              /\ pc[r] = "exited" => exit[r].code = 1
              /\ key[r] = 0
              /\ calls[r] = {}
        /\ flags[r].secretName # "" => DOMAIN files[r] = {}
        /\ flags[r].secretName = "" =>
              /\ calls[r] \cap {"GetSecret", "UpdateSecret"} = {}
              /\ secret[r] = Nil

C8_Witness ==
    \E r \in Runs :
        /\ flags[r].secretName # ""
        /\ ExitedZero(r)
        /\ "UpdateSecret" \in calls[r]
        /\ SecretDelivered(r)
        /\ DOMAIN files[r] = {}

\* C9: the run leaves the poll loop only on a fetch that returns the request
\* with "Approved" as its first condition and a certificate of two bytes or
\* more, and only for the write of the certificate; any other fetch leaves
\* it in the loop.  The certificate written to tls.crt or put into the
\* update of the secret is the certificate of that fetch.
C9_ApprovedOnlyWithCertificate ==
    [][\A r \in Runs :
          /\ (pc[r] = "Poll" /\ pc'[r] # "Poll") =>
                /\ pc'[r] = "WriteCrtFile"
                /\ csrStore # Nil
                /\ Len(csrStore.conditions) >= 1
                /\ Head(csrStore.conditions) = "Approved"
                /\ Len(csrStore.certificate) >= 2
                /\ csr'[r] = csrStore
                /\ certificate'[r] = csrStore.certificate
          /\ "tls.crt" \in DOMAIN files'[r] =>
                files'[r]["tls.crt"] = csr'[r].certificate
          /\ "UpdateSecret" \in calls'[r] =>
                secret'[r].stringData["tls.crt"] = csr'[r].certificate]_vars

C9_Witness ==
    \E r \in Runs :
        /\ "tls.crt" \in DOMAIN files[r]
        /\ csr[r] # Nil
        /\ csr[r].owner = r
        /\ csr[r].conditions = <<"Approved", "Denied">>
        /\ files[r]["tls.crt"] = csr[r].certificate

\* C10: a control-plane call that fails is repeated: the run leaves the
\* delete before the submission only with the request gone, a presence
\* check whose fetch failed is repeated, and an update of the secret that
\* failed is repeated.
C10_FailedCallsRetried ==
    [][\A r \in Runs :
          /\ (pc[r] = "Cleanup" /\ csrStore # Nil /\ pc'[r] # "Cleanup")
                => csrStore' = Nil
          /\ (pc[r] = "PresenceCheck" /\ err'[r] = "unavailable")
                => pc'[r] = "PresenceCheck"
          /\ (pc[r] = "StoreSecret" /\ err'[r] \in {"unavailable", "conflict", "not found"})
                => pc'[r] = "StoreSecret"]_vars

\* C11: for every identity and configuration the list of DNS names has at
\* least one entry, and the common name of the request that the run builds
\* is the entry at index 0 of the list of its DNS names.
C11_CommonNameIsFirstName ==
    \A r \in Runs :
        /\ Len(DNSNames(flags[r])) >= 1
        /\ certificateRequestBytes[r] # Nil =>
              /\ Len(certificateRequestBytes[r].dnsNames) >= 1
              /\ certificateRequestBytes[r].commonName =
                    Head(certificateRequestBytes[r].dnsNames)

C11_Witness ==
    \E r \in Runs :
        /\ certificateRequestBytes[r] # Nil
        /\ Len(certificateRequestBytes[r].dnsNames) = 3
        /\ certificateRequestBytes[r].commonName = "fd00::1.n.pod.d"
        /\ certificateRequestBytes[r].dnsNames[3] = "web.n.svc.d"

\* the entries of a list flag that are not empty
NonEmpty(list) == SelectSeq(list, LAMBDA n : n # "")

\* C12: in the request that the run builds, with hostname and subdomain both
\* set the headless name hostname.subdomain.namespace.svc.clusterDomain is
\* at index 0 and the pod name at index 1 when headlessNameAsCN is set, and
\* the pod name at index 0 and the headless name at index 1 when it is not;
\* with either of them empty the pod name is at index 0 and there is no
\* headless name.  Then follow the additional names that are not empty, in
\* their order, then name.namespace.svc.clusterDomain for the service names
\* that are not empty, in their order.
C12_OrderOfNames ==
    \A r \in Runs :
        certificateRequestBytes[r] # Nil =>
            LET f == flags[r]
                names == certificateRequestBytes[r].dnsNames
                pod == podDomainName(f.podIP, f.namespace, f.clusterDomain)
                headless == f.hostname \o "." \o f.subdomain \o "." \o f.namespace
                               \o ".svc." \o f.clusterDomain
                both == f.hostname # "" /\ f.subdomain # ""
                base == IF both THEN 2 ELSE 1
                more == NonEmpty(f.additionalDNSNames)
                svc == NonEmpty(f.serviceNames)
            IN /\ Len(names) = base + Len(more) + Len(svc)
               /\ (both /\ f.headlessNameAsCN) => (names[1] = headless /\ names[2] = pod)
               /\ (both /\ ~f.headlessNameAsCN) => (names[1] = pod /\ names[2] = headless)
               /\ ~both => (names[1] = pod /\ \A i \in 1..Len(names) : names[i] # headless)
               /\ \A i \in 1..Len(more) : names[base + i] = more[i]
               /\ \A i \in 1..Len(svc) :
                     names[base + Len(more) + i] =
                        svc[i] \o "." \o f.namespace \o ".svc." \o f.clusterDomain

C12_Witness ==
    \E r \in Runs :
        /\ flags[r].headlessNameAsCN
        /\ certificateRequestBytes[r] # Nil
        /\ certificateRequestBytes[r].dnsNames =
              <<"h.s.n.svc.d", "10-0-0-5.n.pod.d", "a.example", "web.n.svc.d">>

\* a polled request whose first condition is an approval and which carries
\* a certificate
Granted(r) ==
    /\ pc[r] = "Poll"
    /\ csrStore # Nil
    /\ Len(csrStore.conditions) >= 1
    /\ Head(csrStore.conditions) = "Approved"
    /\ Len(csrStore.certificate) >= 2

\* a polled request whose first condition is a denial
Refused(r) ==
    /\ pc[r] = "Poll"
    /\ csrStore # Nil
    /\ Len(csrStore.conditions) >= 1
    /\ Head(csrStore.conditions) = "Denied"

\* C13: a run that polls a request carrying an approval and a certificate
\* eventually has the certificate and terminates, the fetches of the poll
\* loop failing any finite number of times; a run that polls a request whose
\* first condition is a denial stays in the poll loop for ever.
C13_BlocksUntilApproved ==
    \A r \in Runs :
        /\ Granted(r) ~> (pc[r] = "exited" /\ Len(certificate[r]) >= 2)
        /\ [](Refused(r) => [](pc[r] = "Poll"))

C13_Witness ==
    \E r \in Runs :
        /\ pc[r] = "exited"
        /\ exit[r].code = 0
        /\ "GetCertificateSigningRequest:295" \in calls[r]
        /\ Len(certificate[r]) >= 2
        /\ csr[r] # Nil
        /\ csr[r].owner = r

\* C14: a submission made while a request of the name exists fails fatally
\* and leaves that request as it is, a submission made while there is none
\* stores the request of the run; nothing orders the delete, the presence
\* check and the submission of one run against those of another, so two
\* runs can both find no request and both submit.
C14_SecondCreateFails ==
    [][\A r \in Runs :
          (pc[r] = "Create" /\ pc'[r] # "Create") =>
              IF csrStore # Nil
              THEN /\ pc'[r] = "exited"
                   /\ exit'[r].code = 1
                   /\ exit'[r].msg = "unable to create the certificate signing request"
                   /\ csrStore' = csrStore
              ELSE /\ pc'[r] = "Poll"
                   /\ csrStore' # Nil
                   /\ csrStore'.owner = r]_vars

C14_Witness ==
    \E r, q \in Runs :
        /\ r # q
        /\ startRequest = Nil
        /\ "CreateCertificateSigningRequest:284" \in calls[r]
        /\ "CreateCertificateSigningRequest:284" \in calls[q]
        /\ csrStore # Nil
        /\ csrStore.owner = r
        /\ pc[r] = "Poll"
        /\ exit[q].code = 1
        /\ err[q] = "already exists"

\* C15: with -secret-name, a run that holds no fetched secret has generated
\* no key and made no signing-request call; it leaves the preflight loop
\* only on a fetch that found the secret, and an iteration that stays in the
\* loop leaves it without secret and without key; a step of the run never makes a secret where there
\* is none, and it changes the secret only in its last step, with the
\* object kept from the preflight fetch, of the resourceVersion fetched and
\* with tls.key, tls.crt and ca.crt laid over the data fetched.
C15_SecretAwaitedNotCreated ==
    /\ [](\A r \in Runs :
            (flags[r].secretName # "" /\ secret[r] = Nil) =>
                /\ key[r] = 0
                /\ pemKeyBytes[r] = Nil
                /\ calls[r] \cap SigningRequestCalls = {}
                /\ "UpdateSecret" \notin calls[r])
    /\ [][\A r \in Runs :
            /\ pc[r] = "GetSecret" =>
                  IF pc'[r] = "GetSecret"
                  THEN secret'[r] = Nil /\ key'[r] = 0
                  ELSE /\ secretStore # Nil
                       /\ secretStore' = secretStore
                       /\ secret'[r] \in {Nil, secretStore}
                       /\ secret'[r] = Nil <=> pc'[r] = "exited"
            /\ (pc'[r] # pc[r] /\ secretStore' # secretStore) =>
                  /\ pc[r] = "StoreSecret"
                  /\ pc'[r] = "exited"
                  /\ "UpdateSecret" \notin calls[r]
                  /\ secretStore # Nil
                  /\ secret[r] # Nil
                  /\ secret'[r].data = secret[r].data
                  /\ secret'[r].resourceVersion = secretStore.resourceVersion
                  /\ secretStore'.data = secret'[r].stringData @@ secret[r].data
                  /\ DOMAIN secret'[r].stringData = {"tls.key", "tls.crt", "ca.crt"}
            /\ secret[r] # Nil => secret'[r] # Nil /\ secret'[r].data = secret[r].data]_vars

C15_Witness ==
    \E r \in Runs :
        /\ "GetSecret" \in calls[r]
        /\ "UpdateSecret" \in calls[r]
        /\ secret[r] # Nil
        /\ DOMAIN secret[r].data = {"ca.crt"}
        /\ secretStore # Nil
        /\ secretStore.resourceVersion = 2
        /\ secretStore.data["tls.key"].key = r

\* C16 as stated: the addresses of a run are parsed before its key is
\* generated, and no file is written and no update of the secret made
\* before the poll loop has returned the certificate.
C16_StagesInOrder ==
    \A r \in Runs :
        /\ key[r] # 0 => ipaddresses[r] # <<>>
        /\ (DOMAIN files[r] # {} \/ "UpdateSecret" \in calls[r]) =>
              Len(certificate[r]) >= 2

\* C16: the order of the code.  With -secret-name the key is generated
\* after the preflight fetch; labels and addresses are parsed after the key
\* is generated; the request is built from the key, the parsed addresses
\* and the DNS names; with the filesystem sink tls.key and tls.csr are
\* written before the first signing-request call, which comes after the
\* request is built; tls.crt is written and the secret updated only after
\* the poll loop has returned a certificate.
C16_StagesAsCoded ==
    \A r \in Runs :
        /\ (flags[r].secretName # "" /\ key[r] # 0) => secret[r] # Nil
        /\ (labelsMap[r] # <<>> \/ ipaddresses[r] # <<>>) =>
              /\ key[r] # 0
              /\ pemKeyBytes[r] # Nil
              /\ flags[r].secretName = "" => "tls.key" \in DOMAIN files[r]
        /\ certificateRequestBytes[r] # Nil =>
              /\ certificateRequestBytes[r].key = key[r]
              /\ key[r] # 0
              /\ ipaddresses[r] # <<>>
              /\ certificateRequestBytes[r].ips = ipaddresses[r]
              /\ Head(ipaddresses[r]) = ParseIP(flags[r].podIP)
              /\ Head(ipaddresses[r]) # NilIP
        /\ "tls.csr" \in DOMAIN files[r] =>
              files[r]["tls.csr"] = certificateRequestBytes[r]
        /\ calls[r] \cap SigningRequestCalls # {} =>
              /\ certificateRequestBytes[r] # Nil
              /\ flags[r].secretName = "" =>
                    {"tls.key", "tls.csr"} \subseteq DOMAIN files[r]
        /\ ("tls.crt" \in DOMAIN files[r] \/ "UpdateSecret" \in calls[r]) =>
              /\ "GetCertificateSigningRequest:295" \in calls[r]
              /\ Len(certificate[r]) >= 2

C16_Witness ==
    \E r \in Runs :
        /\ pc[r] = "ParseIPs"
        /\ key[r] = r
        /\ ipaddresses[r] = <<>>
        /\ DOMAIN files[r] = {"tls.key"}
        /\ certificate[r] = <<>>
        /\ calls[r] = {}

\* C17: the certificate that a run writes to tls.crt, or sends in its update
\* of the secret, was issued for the key that the run generated and
\* delivers with it.
C17_DeliveredCertificateMatchesKey ==
    \A r \in Runs :
        /\ "tls.crt" \in DOMAIN files[r] =>
              /\ files[r]["tls.key"].key = key[r]
              /\ \A i \in 1..Len(files[r]["tls.crt"]) : files[r]["tls.crt"][i] = key[r]
        /\ "UpdateSecret" \in calls[r] =>
              /\ secret[r].stringData["tls.key"].key = key[r]
              /\ \A i \in 1..Len(secret[r].stringData["tls.crt"]) :
                    secret[r].stringData["tls.crt"][i] = key[r]

\* C18: of two runs of the same name, with a control plane that answers
\* every call, none is left in the poll loop with the request gone and with
\* no run left that would submit it again.
C18_NoRunLeftPolling ==
    \A r \in Runs :
        ~ /\ pc[r] = "Poll"
          /\ csrStore = Nil
          /\ \A q \in Runs \ {r} : pc[q] \in {"Poll", "exited"}

====
